---------------------------- MODULE Spec2Model ----------------------------
(***************************************************************************)
(* Warehouse flow simulator: the grid topology (WarehouseMap), the order   *)
(* record (Order), the worker state machine (WarehouseWorker) and the tick *)
(* orchestrator (WarehouseSimulator).                                      *)
(*                                                                         *)
(* Cells are pairs <<x, y>>.  Python's None is modelled by NoOrder / NoTime *)
(* / NoWorker / NonePos.  Orders are referred to by their position in the  *)
(* master log `orders` (Python object identity).                           *)
(***************************************************************************)
EXTENDS Integers, Sequences, FiniteSets, TLC

\* ------------------------------------------------------------- bounds ---
MaxWidth   == 5      \* widths 1..MaxWidth are tried
MaxHeight  == 5      \* heights 0..MaxHeight are tried
MaxWorkers == 2      \* num_workers in 1..MaxWorkers
MaxOrders  == 2      \* orders created in one run
MaxSteps   == 20     \* ticks of one run
GenWindow  == 2      \* orders are created while current_time < GenWindow
MaxItems   == 2      \* max_items handed to generate_random_order
WallSpan   == 0      \* host clock readings are WallEpoch..WallEpoch+WallSpan
EditedWidth  == 5    \* size of the layout that is edited after construction
EditedHeight == 5
ClockDrift == 1      \* a second run reads the host clock 1..ClockDrift later
GridWidth    == 3    \* grids of any content: widths 2..GridWidth
GridHeight   == 3    \*   and heights 1..GridHeight
LayoutWidth  == 8    \* constructed layouts queried directly: widths up to 8
LayoutHeight == 9    \*   and heights up to 9
AllPairsCells == 25  \* maps of at most this many cells are queried from every start
LiveSteps  == 24     \* ticks of a run that is followed to its end
ReportWidth  == 5    \* size of the layout of the runs that call the readers
ReportHeight == 3
ReportWorkers == 2   \*   and their largest number of workers

\* ---------------------------------------------------------- constants ---
MinItems     == 1    \* min_items default of generate_random_order
MaxPriority  == 3    \* random.randint(1, 3)
DefaultPriority == 1 \* Order.__init__ priority default
time_step    == 1    \* WarehouseSimulator.time_step
WallEpoch    == 1000 \* a value of time.time(): larger than any simulated time
UnknownProduct == 99 \* a product id that is no key of storage_locations
AISLE   == 0
SHELF   == 1
STATION == 2

NoOrder  == 0
NoWorker == 0
NoTime   == -1
NonePos  == <<>>
NoQuery  == [op |-> "none"]
NoReport == [op |-> "none"]

\* ---------------------------------------------------------- utilities ---
Abs(n) == IF n < 0 THEN -n ELSE n

Manhattan(a, b) == Abs(a[1] - b[1]) + Abs(a[2] - b[2])

Range(s) == {s[i] : i \in DOMAIN s}

Contains(s, e) == \E i \in DOMAIN s : s[i] = e

RECURSIVE SumSeq(_)
SumSeq(s) == IF s = <<>> THEN 0 ELSE Head(s) + SumSeq(Tail(s))

\* --------------------------------------------------------- WarehouseMap ---
\* numpy indexing grid[i] on an axis of length n: negative indices wrap,
\* anything outside -n..n-1 raises IndexError.
IndexOk(i, n) == -n <= i /\ i < n

NumpyIndex(i, n) == IF i < 0 THEN i + n ELSE i

\* range(2, width-2, 3)
ShelfColumns(w) == {x \in 2..(w - 3) : (x - 2) % 3 = 0}

\* range(1, height-1) with y % 4 != 0
ShelfRows(h) == {y \in 1..(h - 2) : y % 4 # 0}

PickingStation(w, h) == <<1, h - 2>>

\* WarehouseMap(width, height) returns without IndexError
Constructible(w, h) ==
    /\ w >= 0 /\ h >= 0
    /\ IndexOk(PickingStation(w, h)[1], w)
    /\ IndexOk(PickingStation(w, h)[2], h)

CellSet(w, h) == {<<x, y>> : x \in 0..(w - 1), y \in 0..(h - 1)}

\* the cells in scan order: for y in range(height): for x in range(width)
ScanCells(w, h) == [i \in 1..(w * h) |-> <<(i - 1) % w, (i - 1) \div w>>]

InitializeLayout(w, h) ==
    LET ps  == PickingStation(w, h)
        psc == <<NumpyIndex(ps[1], w), NumpyIndex(ps[2], h)>>
    IN  [c \in CellSet(w, h) |->
            IF c = psc THEN STATION
            ELSE IF c[1] \in ShelfColumns(w) /\ c[2] \in ShelfRows(h) THEN SHELF
            ELSE AISLE]

IsWalkableValue(v) == v = AISLE \/ v = STATION

UpdateWalkablePaths(g, w, h) ==
    SelectSeq(ScanCells(w, h), LAMBDA c : IsWalkableValue(g[c]))

\* product ids 1, 2, ... in scan order over the shelf cells
StorageLocations(g, w, h) ==
    SelectSeq(ScanCells(w, h), LAMBDA c : g[c] = SHELF)

NeighbourOffsets == << <<0, 1>>, <<1, 0>>, <<0, -1>>, <<-1, 0>> >>

\* mutant: only the neighbours above and to the right are listed
BuildNavigationGraph_OneWay(g, walk, w, h) ==
    [c \in Range(walk) |->
        SelectSeq([i \in 1..2 |-> <<c[1] + NeighbourOffsets[i][1],
                                     c[2] + NeighbourOffsets[i][2]>>],
                  LAMBDA n : /\ 0 <= n[1] /\ n[1] < w
                             /\ 0 <= n[2] /\ n[2] < h
                             /\ IsWalkableValue(g[n]))]

BuildNavigationGraph(g, walk, w, h) ==
    [c \in Range(walk) |->
        SelectSeq([i \in 1..4 |-> <<c[1] + NeighbourOffsets[i][1],
                                     c[2] + NeighbourOffsets[i][2]>>],
                  LAMBDA n : /\ 0 <= n[1] /\ n[1] < w
                             /\ 0 <= n[2] /\ n[2] < h
                             /\ IsWalkableValue(g[n]))]

RECURSIVE NearestScan(_, _, _, _, _)
\* mutant: among equidistant cells the last one scanned wins
NearestScan_LastWins(walk, i, pos, best, bestDist) ==
    IF i > Len(walk) THEN best
    ELSE LET d == Manhattan(walk[i], pos)
         IN  IF best = NonePos \/ d <= bestDist
             THEN NearestScan(walk, i + 1, pos, walk[i], d)
             ELSE NearestScan(walk, i + 1, pos, best, bestDist)

NearestScan(walk, i, pos, best, bestDist) ==
    IF i > Len(walk) THEN best
    ELSE LET d == Manhattan(walk[i], pos)
         IN  IF best = NonePos \/ d < bestDist
             THEN NearestScan(walk, i + 1, pos, walk[i], d)
             ELSE NearestScan(walk, i + 1, pos, best, bestDist)

GetNearestWalkable(walk, pos) ==
    IF Contains(walk, pos) THEN pos
    ELSE NearestScan(walk, 1, pos, NonePos, 0)

\* ----------------------------------------------- find_shortest_path ---
\* nx.Graph() filled by add_edge(node, neighbor) over adjacency_list.items():
\* a node is in the graph iff it has an edge; graph[u] lists u's neighbours in
\* the order in which the edges touching u were first added.
ScanRank(c, w) == c[2] * w + c[1]

OffsetRank(a, b) ==
    CHOOSE i \in 1..4 : <<a[1] + NeighbourOffsets[i][1],
                          a[2] + NeighbourOffsets[i][2]>> = b

EdgeRank(u, v, w) ==
    LET fromU == 4 * ScanRank(u, w) + OffsetRank(u, v)
        fromV == 4 * ScanRank(v, w) + OffsetRank(v, u)
    IN  IF fromU <= fromV THEN fromU ELSE fromV

RECURSIVE SortByRank(_, _, _)
SortByRank(todo, u, w) ==
    IF todo = {} THEN <<>>
    ELSE LET v == CHOOSE a \in todo :
                    \A b \in todo : EdgeRank(u, a, w) <= EdgeRank(u, b, w)
         IN  <<v>> \o SortByRank(todo \ {v}, u, w)

GraphNodes(adj) ==
    {u \in DOMAIN adj : adj[u] # <<>>} \cup UNION {Range(adj[u]) : u \in DOMAIN adj}

GraphNeighbours(adj, u, w) ==
    SortByRank({v \in DOMAIN adj : Contains(adj[v], u) \/ Contains(adj[u], v)}, u, w)

\* mutant: a heuristic that overestimates the remaining distance
Heuristic_Overestimates(a, b) == 3 * Manhattan(a, b)

Heuristic(a, b) == Manhattan(a, b)

\* heapq.heappop on tuples (priority, next(c), node, dist, parent)
HeapMin(queue) ==
    CHOOSE e \in queue :
        \A o \in queue : e.f < o.f \/ (e.f = o.f /\ e.c <= o.c)

RECURSIVE WalkBack(_, _)
WalkBack(node, explored) ==
    IF node = NonePos THEN <<>>
    ELSE Append(WalkBack(explored[node], explored), node)

RECURSIVE Relax(_, _, _, _, _)
Relax(nbrs, i, cur, target, st) ==
    IF i > Len(nbrs) THEN st
    ELSE LET n     == nbrs[i]
             ncost == cur.dist + 1
             known == n \in DOMAIN st.enqueued
             skip  == known /\ st.enqueued[n][1] <= ncost
             h     == IF known THEN st.enqueued[n][2] ELSE Heuristic(n, target)
         IN  IF skip THEN Relax(nbrs, i + 1, cur, target, st)
             ELSE Relax(nbrs, i + 1, cur, target,
                    [st EXCEPT
                       !.enqueued = (n :> <<ncost, h>>) @@ st.enqueued,
                       !.queue = st.queue \cup
                          {[f |-> ncost + h, c |-> st.cnt, node |-> n,
                            dist |-> ncost, parent |-> cur.node]},
                       !.cnt = st.cnt + 1])

\* nx.astar_path; the empty sequence stands for NetworkXNoPath
RECURSIVE AStarLoop(_, _, _, _)
AStarLoop(st, target, adj, w) ==
    IF st.queue = {} THEN <<>>
    ELSE LET cur  == HeapMin(st.queue)
             rest == [st EXCEPT !.queue = st.queue \ {cur}]
         IN  IF cur.node = target
             THEN Append(WalkBack(cur.parent, st.explored), cur.node)
             ELSE IF /\ cur.node \in DOMAIN st.explored
                     /\ \/ st.explored[cur.node] = NonePos
                        \/ st.enqueued[cur.node][1] < cur.dist
             THEN AStarLoop(rest, target, adj, w)
             ELSE AStarLoop(
                    Relax(GraphNeighbours(adj, cur.node, w), 1, cur, target,
                          [rest EXCEPT !.explored =
                              (cur.node :> cur.parent) @@ st.explored]),
                    target, adj, w)

AStarPath(adj, source, target, w) ==
    AStarLoop([queue |-> {[f |-> 0, c |-> 0, node |-> source, dist |-> 0,
                           parent |-> NonePos]},
               cnt |-> 1,
               enqueued |-> [n \in {} |-> <<0, 0>>],
               explored |-> [n \in {} |-> NonePos]],
              target, adj, w)

\* the nodes joined to the nodes of `seen` by a chain of edges
RECURSIVE Reachable(_, _, _)
Reachable(adj, seen, frontier) ==
    IF frontier = {} THEN seen
    ELSE LET next == {v \in DOMAIN adj \ seen :
                        \E u \in frontier :
                            Contains(adj[u], v) \/ Contains(adj[v], u)}
         IN  Reachable(adj, seen \cup next, next)

\* nx.has_path on two nodes of the graph
HasPath(adj, source, target) == target \in Reachable(adj, {source}, {source})

\* raised: nx.has_path raises NodeNotFound when an endpoint is not a node of
\* the graph; otherwise has_path false / NetworkXNoPath both give [].
\* mutant: the route leaves out the cell the walk starts from
FindShortestPath_NoStart(adj, walk, w, start, end) ==
    LET start_walkable == GetNearestWalkable(walk, start)
        end_walkable   == GetNearestWalkable(walk, end)
    IN  [raised |-> FALSE,
         path |-> Tail(AStarPath(adj, start_walkable, end_walkable, w))]

FindShortestPath(adj, walk, w, start, end) ==
    LET start_walkable == GetNearestWalkable(walk, start)
        end_walkable   == GetNearestWalkable(walk, end)
        nodes          == GraphNodes(adj)
    IN  IF start_walkable \notin nodes \/ end_walkable \notin nodes
        THEN [raised |-> TRUE, path |-> <<>>]
        ELSE IF ~HasPath(adj, start_walkable, end_walkable)
        THEN [raised |-> FALSE, path |-> <<>>]
        ELSE [raised |-> FALSE,
              path |-> AStarPath(adj, start_walkable, end_walkable, w)]

\* ---------------------------------------------------------------- state ---
VARIABLES width, height, grid, walkable_paths, storage_locations,
          picking_station, adjacency_list,
          workers,            \* WarehouseSimulator.workers, index = worker_id
          orders,             \* WarehouseSimulator.orders (master log)
          pending_orders,     \* positions in `orders`
          completed_orders,   \* positions in `orders`
          current_time,
          stats,
          wall,               \* the host clock read by time.time()
          aborted,            \* an exception has left update(): the run is over
          query,              \* the last direct call of a WarehouseMap query
          report              \* what the reader called last has returned;
                              \* NoReport after any other operation

topo == <<width, height, grid, walkable_paths, storage_locations,
          picking_station, adjacency_list>>

vars == <<width, height, grid, walkable_paths, storage_locations,
          picking_station, adjacency_list, workers, orders, pending_orders,
          completed_orders, current_time, stats, wall, aborted, query,
          report>>

Products == DOMAIN storage_locations

ShortestPath(start, end) ==
    FindShortestPath(adjacency_list, walkable_paths, width, start, end)

\* ---------------------------------------------------------------- Order ---
\* original_items and created_tick are history fields (the item list and the
\* simulated time at construction); the program does not read them.
NewOrder(order_id, items, priority, now, tick) ==
    [order_id |-> order_id, items |-> items, priority |-> priority,
     created_time |-> now, completed_time |-> NoTime,
     assigned_worker |-> NoWorker,
     original_items |-> items, created_tick |-> tick]

IsCompleted(o) == Len(o.items) = 0 /\ o.completed_time # NoTime

MarkAsCompleted(o, completion_time) ==
    [o EXCEPT !.completed_time = completion_time]

Max0(n) == IF n < 0 THEN 0 ELSE n

\* mutant: the processing time is the plain difference, negative or not
GetProcessingTime_Unclamped(o, now) ==
    IF o.completed_time # NoTime /\ o.completed_time # 0
    THEN o.completed_time - o.created_time
    ELSE now - o.created_time

\* `if self.completed_time:` is false for None and for 0
GetProcessingTime(o, now) ==
    IF o.completed_time # NoTime /\ o.completed_time # 0
    THEN Max0(o.completed_time - o.created_time)
    ELSE Max0(now - o.created_time)

\* ------------------------------------------------------ WarehouseWorker ---
NewWorker(worker_id, start) ==
    [worker_id |-> worker_id, position |-> start, current_order |-> NoOrder,
     path |-> <<>>, path_index |-> 0, picked_items |-> <<>>,
     is_busy |-> FALSE, total_distance |-> 0, total_items_picked |-> 0,
     movement_history |-> <<>>, activity_log |-> <<>>]

\* activity_log entries are <<time, kind, a, b>>; kind stands for the text
LogEntry(t, kind, a, b) == <<t, kind, a, b>>

\* st = [workers, orders, completed, aborted]: the objects a call chain
\* mutates, and whether an exception is propagating out of it

\* mutant: a new path is followed from where the cursor of the old one stood
FollowRoute_KeepsCursor(st, w, found, entry) ==
    IF found.raised THEN [st EXCEPT !.aborted = TRUE]
    ELSE [st EXCEPT !.workers[w] =
            [st.workers[w] EXCEPT
               !.path = found.path,
               !.activity_log = Append(@, entry)]]

\* mutant: the cursor is set past the first cell of the new path
FollowRoute_SkipsFirstCell(st, w, found, entry) ==
    IF found.raised THEN [st EXCEPT !.aborted = TRUE]
    ELSE [st EXCEPT !.workers[w] =
            [st.workers[w] EXCEPT
               !.path = found.path,
               !.activity_log = Append(@, entry),
               !.path_index = 1]]

\* self.path = find_shortest_path(...), the log entry and path_index = 0;
\* an exception raised by the search leaves all three undone
FollowRoute(st, w, found, entry) ==
    IF found.raised THEN [st EXCEPT !.aborted = TRUE]
    ELSE [st EXCEPT !.workers[w] =
            [st.workers[w] EXCEPT
               !.path = found.path,
               !.activity_log = Append(@, entry),
               !.path_index = 0]]

RECURSIVE PlanPathToNextItem(_, _, _)
\* mutant: an item without a storage location is counted as picked
PlanPathToNextItem_CountsSkip(st, w, now) ==
    LET wk == st.workers[w]
        o  == wk.current_order
    IN  IF o = NoOrder \/ st.orders[o].items = <<>>
        THEN FollowRoute(st, w, ShortestPath(wk.position, picking_station),
                         LogEntry(now, "returning", 0, 0))
        ELSE LET next_item == Head(st.orders[o].items)
             IN  IF next_item \in Products
                 THEN FollowRoute(st, w,
                         ShortestPath(wk.position, storage_locations[next_item]),
                         LogEntry(now, "planned", next_item, 0))
                 ELSE PlanPathToNextItem(
                        [st EXCEPT
                           !.workers[w].activity_log =
                               Append(@, LogEntry(now, "missing", next_item, 0)),
                           !.workers[w].total_items_picked = @ + 1,
                           !.orders[o].items = Tail(@)],
                        w, now)

\* mutant: the route leads to the last item of the backlog, not the first
PlanPathToNextItem_RoutesToLast(st, w, now) ==
    LET wk == st.workers[w]
        o  == wk.current_order
    IN  IF o = NoOrder \/ st.orders[o].items = <<>>
        THEN FollowRoute(st, w, ShortestPath(wk.position, picking_station),
                         LogEntry(now, "returning", 0, 0))
        ELSE LET next_item == Head(st.orders[o].items)
                 last_item == st.orders[o].items[Len(st.orders[o].items)]
             IN  IF next_item \in Products /\ last_item \in Products
                 THEN FollowRoute(st, w,
                         ShortestPath(wk.position, storage_locations[last_item]),
                         LogEntry(now, "planned", next_item, 0))
                 ELSE PlanPathToNextItem(
                        [st EXCEPT
                           !.workers[w].activity_log =
                               Append(@, LogEntry(now, "missing", next_item, 0)),
                           !.orders[o].items = Tail(@)],
                        w, now)

PlanPathToNextItem(st, w, now) ==
    LET wk == st.workers[w]
        o  == wk.current_order
    IN  IF o = NoOrder \/ st.orders[o].items = <<>>
        THEN FollowRoute(st, w, ShortestPath(wk.position, picking_station),
                         LogEntry(now, "returning", 0, 0))
        ELSE LET next_item == Head(st.orders[o].items)
             IN  IF next_item \in Products
                 THEN FollowRoute(st, w,
                         ShortestPath(wk.position, storage_locations[next_item]),
                         LogEntry(now, "planned", next_item, 0))
                 ELSE PlanPathToNextItem(
                        [st EXCEPT
                           !.workers[w].activity_log =
                               Append(@, LogEntry(now, "missing", next_item, 0)),
                           !.orders[o].items = Tail(@)],
                        w, now)

AssignOrder(st, w, o, now) ==
    PlanPathToNextItem(
        [st EXCEPT
           !.workers[w].current_order = o,
           !.workers[w].is_busy = TRUE,
           !.orders[o].assigned_worker = st.workers[w].worker_id,
           !.workers[w].activity_log =
               Append(@, LogEntry(now, "received", st.orders[o].order_id,
                                  Len(st.orders[o].items)))],
        w, now)

\* the part of move() after the position update: the end of the path
\* mutant: completing an order leaves the worker busy
ArriveAtPathEnd_StaysBusy(st, w, t, now) ==
    LET wk == st.workers[w]
        o  == wk.current_order
    IN  IF o # NoOrder /\ st.orders[o].items # <<>>
        THEN PlanPathToNextItem(
                [st EXCEPT
                   !.orders[o].items = Tail(@),
                   !.workers[w].picked_items = Append(@, Head(st.orders[o].items)),
                   !.workers[w].total_items_picked = @ + 1],
                w, now)
        ELSE IF wk.position = picking_station /\ o # NoOrder
        THEN [st EXCEPT
                !.orders[o] = MarkAsCompleted(@, t),
                !.workers[w].current_order = NoOrder,
                !.workers[w].picked_items = <<>>]
        ELSE st

\* mutant: completing an order clears its assigned_worker
ArriveAtPathEnd_ClearsAttribution(st, w, t, now) ==
    LET wk == st.workers[w]
        o  == wk.current_order
    IN  IF o # NoOrder /\ st.orders[o].items # <<>>
        THEN PlanPathToNextItem(
                [st EXCEPT
                   !.orders[o].items = Tail(@),
                   !.workers[w].picked_items = Append(@, Head(st.orders[o].items)),
                   !.workers[w].total_items_picked = @ + 1],
                w, now)
        ELSE IF wk.position = picking_station /\ o # NoOrder
        THEN [st EXCEPT
                !.orders[o] = [MarkAsCompleted(@, t) EXCEPT
                                  !.assigned_worker = NoWorker],
                !.workers[w].current_order = NoOrder,
                !.workers[w].is_busy = FALSE,
                !.workers[w].picked_items = <<>>]
        ELSE st

\* mutant: an order is completed wherever the walk back ends
ArriveAtPathEnd_CompletesAnywhere(st, w, t, now) ==
    LET wk == st.workers[w]
        o  == wk.current_order
    IN  IF o # NoOrder /\ st.orders[o].items # <<>>
        THEN LET item == Head(st.orders[o].items)
             IN  PlanPathToNextItem(
                    [st EXCEPT
                       !.orders[o].items = Tail(@),
                       !.workers[w].picked_items = Append(@, item),
                       !.workers[w].total_items_picked = @ + 1,
                       !.workers[w].activity_log =
                           Append(@, LogEntry(t, "picked", item, 0))],
                    w, now)
        ELSE IF o # NoOrder
        THEN [st EXCEPT
                !.workers[w].activity_log =
                    Append(@, LogEntry(t, "completed", st.orders[o].order_id, 0)),
                !.orders[o] = MarkAsCompleted(@, t),
                !.workers[w].current_order = NoOrder,
                !.workers[w].is_busy = FALSE,
                !.workers[w].picked_items = <<>>]
        ELSE st

\* mutant: completing an order leaves its items in picked_items
ArriveAtPathEnd_KeepsPicked(st, w, t, now) ==
    LET wk == st.workers[w]
        o  == wk.current_order
    IN  IF o # NoOrder /\ st.orders[o].items # <<>>
        THEN LET item == Head(st.orders[o].items)
             IN  PlanPathToNextItem(
                    [st EXCEPT
                       !.orders[o].items = Tail(@),
                       !.workers[w].picked_items = Append(@, item),
                       !.workers[w].total_items_picked = @ + 1,
                       !.workers[w].activity_log =
                           Append(@, LogEntry(t, "picked", item, 0))],
                    w, now)
        ELSE IF wk.position = picking_station /\ o # NoOrder
        THEN [st EXCEPT
                !.workers[w].activity_log =
                    Append(@, LogEntry(t, "completed", st.orders[o].order_id, 0)),
                !.orders[o] = MarkAsCompleted(@, t),
                !.workers[w].current_order = NoOrder,
                !.workers[w].is_busy = FALSE]
        ELSE st

\* mutant: a pick pops the item without counting it
ArriveAtPathEnd_NoCount(st, w, t, now) ==
    LET wk == st.workers[w]
        o  == wk.current_order
    IN  IF o # NoOrder /\ st.orders[o].items # <<>>
        THEN PlanPathToNextItem(
                [st EXCEPT
                   !.orders[o].items = Tail(@),
                   !.workers[w].picked_items = Append(@, Head(st.orders[o].items))],
                w, now)
        ELSE IF wk.position = picking_station /\ o # NoOrder
        THEN [st EXCEPT
                !.orders[o] = MarkAsCompleted(@, t),
                !.workers[w].current_order = NoOrder,
                !.workers[w].is_busy = FALSE,
                !.workers[w].picked_items = <<>>]
        ELSE st

ArriveAtPathEnd(st, w, t, now) ==
    LET wk == st.workers[w]
        o  == wk.current_order
    IN  IF o # NoOrder /\ st.orders[o].items # <<>>
        THEN LET item == Head(st.orders[o].items)
             IN  PlanPathToNextItem(
                    [st EXCEPT
                       !.orders[o].items = Tail(@),
                       !.workers[w].picked_items = Append(@, item),
                       !.workers[w].total_items_picked = @ + 1,
                       !.workers[w].activity_log =
                           Append(@, LogEntry(t, "picked", item, 0))],
                    w, now)
        ELSE IF wk.position = picking_station /\ o # NoOrder
        THEN [st EXCEPT
                !.workers[w].activity_log =
                    Append(@, LogEntry(t, "completed", st.orders[o].order_id, 0)),
                !.orders[o] = MarkAsCompleted(@, t),
                !.workers[w].current_order = NoOrder,
                !.workers[w].is_busy = FALSE,
                !.workers[w].picked_items = <<>>]
        ELSE st

\* mutant: a busy worker without a route drops its order and turns idle
Move_DropsStalledOrder(st, w, t, now) ==
    LET wk == st.workers[w]
    IN  IF wk.is_busy /\ wk.path = <<>>
        THEN [st EXCEPT !.workers[w].is_busy = FALSE,
                        !.workers[w].current_order = NoOrder]
        ELSE IF ~wk.is_busy \/ wk.path_index >= Len(wk.path)
        THEN st
        ELSE LET next_position == wk.path[wk.path_index + 1]
                 distance      == Manhattan(next_position, wk.position)
                 moved == [st EXCEPT !.workers[w] =
                             [wk EXCEPT
                                !.total_distance = @ + distance,
                                !.position = next_position,
                                !.path_index = @ + 1,
                                !.movement_history =
                                    Append(@, <<t, next_position[1],
                                                next_position[2]>>)]]
             IN  IF moved.workers[w].path_index >= Len(wk.path)
                 THEN ArriveAtPathEnd(moved, w, t, now)
                 ELSE moved

\* mutant: movement_history keeps only the latest position
Move_OverwritesHistory(st, w, t, now) ==
    LET wk == st.workers[w]
    IN  IF ~wk.is_busy \/ wk.path = <<>> \/ wk.path_index >= Len(wk.path)
        THEN st
        ELSE LET next_position == wk.path[wk.path_index + 1]
                 distance      == Manhattan(next_position, wk.position)
                 moved == [st EXCEPT !.workers[w] =
                             [wk EXCEPT
                                !.total_distance = @ + distance,
                                !.position = next_position,
                                !.path_index = @ + 1,
                                !.movement_history =
                                    <<<<t, next_position[1],
                                        next_position[2]>>>>]]
             IN  IF moved.workers[w].path_index >= Len(wk.path)
                 THEN ArriveAtPathEnd(moved, w, t, now)
                 ELSE moved

Move(st, w, t, now) ==
    LET wk == st.workers[w]
    IN  IF ~wk.is_busy \/ wk.path = <<>> \/ wk.path_index >= Len(wk.path)
        THEN st
        ELSE LET next_position == wk.path[wk.path_index + 1]
                 distance      == Manhattan(next_position, wk.position)
                 moved == [st EXCEPT !.workers[w] =
                             [wk EXCEPT
                                !.total_distance = @ + distance,
                                !.position = next_position,
                                !.path_index = @ + 1,
                                !.movement_history =
                                    Append(@, <<t, next_position[1],
                                                next_position[2]>>)]]
             IN  IF moved.workers[w].path_index >= Len(wk.path)
                 THEN ArriveAtPathEnd(moved, w, t, now)
                 ELSE moved

\* --------------------------------------------------- WarehouseSimulator ---
\* update(): the search for the order the worker has just completed
RECURSIVE SweepCompleted(_, _, _)
\* mutant: the completed order is never added to completed_orders
SweepCompleted_Never(st, w, i) == st

\* mutant: the sweep does not look whether the order is already listed
SweepCompleted_NoDedup(st, w, i) ==
    IF i > Len(st.orders) THEN st
    ELSE IF /\ st.orders[i].assigned_worker = st.workers[w].worker_id
            /\ IsCompleted(st.orders[i])
         THEN [st EXCEPT !.completed = Append(@, i)]
         ELSE SweepCompleted(st, w, i + 1)

SweepCompleted(st, w, i) ==
    IF i > Len(st.orders) THEN st
    ELSE IF /\ st.orders[i].assigned_worker = st.workers[w].worker_id
            /\ IsCompleted(st.orders[i])
            /\ ~Contains(st.completed, i)
         THEN [st EXCEPT !.completed = Append(@, i)]
         ELSE SweepCompleted(st, w, i + 1)

\* update(): if worker.current_order is None and worker.is_busy == False
SweepIfIdle(moved, w) ==
    IF /\ moved.workers[w].current_order = NoOrder
       /\ moved.workers[w].is_busy = FALSE
    THEN SweepCompleted(moved, w, 1)
    ELSE moved

\* update(): for worker in self.workers
RECURSIVE MoveWorkers(_, _, _, _)
MoveWorkers(st, w, t, now) ==
    IF w > Len(st.workers) \/ st.aborted THEN st
    ELSE IF ~st.workers[w].is_busy THEN MoveWorkers(st, w + 1, t, now)
    ELSE MoveWorkers(SweepIfIdle(Move(st, w, t, now), w), w + 1, t, now)

\* list.sort(key=priority): stable
RECURSIVE InsertByPriority(_, _, _)
\* mutant: a sort that puts an order before the queued orders of its priority
InsertByPriority_BeforeEquals(sorted, o, ords) ==
    IF sorted = <<>> THEN <<o>>
    ELSE IF ords[Head(sorted)].priority < ords[o].priority
         THEN <<Head(sorted)>> \o InsertByPriority(Tail(sorted), o, ords)
         ELSE <<o>> \o sorted

InsertByPriority(sorted, o, ords) ==
    IF sorted = <<>> THEN <<o>>
    ELSE IF ords[Head(sorted)].priority <= ords[o].priority
         THEN <<Head(sorted)>> \o InsertByPriority(Tail(sorted), o, ords)
         ELSE <<o>> \o sorted

RECURSIVE SortByPriority(_, _)
\* mutant: the pending list is left in arrival order
SortByPriority_Unsorted(pending, ords) == pending

SortByPriority(pending, ords) ==
    IF pending = <<>> THEN <<>>
    ELSE InsertByPriority(
            SortByPriority(SubSeq(pending, 1, Len(pending) - 1), ords),
            pending[Len(pending)], ords)

\* mutant: only the first worker of the list is ever considered
FirstIdleWorker_OnlyFirst(ws) ==
    IF ws # <<>> /\ ~ws[1].is_busy THEN 1 ELSE NoWorker

FirstIdleWorker(ws) ==
    IF \E w \in DOMAIN ws : ~ws[w].is_busy
    THEN CHOOSE w \in DOMAIN ws :
            ~ws[w].is_busy /\ \A v \in DOMAIN ws : v < w => ws[v].is_busy
    ELSE NoWorker

RemoveFirst(seq, e) ==
    LET i == CHOOSE k \in DOMAIN seq :
                seq[k] = e /\ \A m \in DOMAIN seq : m < k => seq[m] # e
    IN  SubSeq(seq, 1, i - 1) \o SubSeq(seq, i + 1, Len(seq))

\* mutant: an assigned order is left in pending_orders
RemoveAssigned_KeepsPending(assigned, pending, o) ==
    [st |-> assigned, pending |-> pending]

\* self.pending_orders.remove(order), not reached when assign_order() raised
RemoveAssigned(assigned, pending, o) ==
    [st |-> assigned,
     pending |-> IF assigned.aborted THEN pending ELSE RemoveFirst(pending, o)]

\* assign_orders(): for order in self.pending_orders[:]
\* as = [st, pending]
RECURSIVE AssignLoop(_, _, _, _)
AssignLoop(as, snapshot, i, now) ==
    IF i > Len(snapshot) \/ as.st.aborted THEN as
    ELSE LET w == FirstIdleWorker(as.st.workers)
         IN  IF w = NoWorker THEN AssignLoop(as, snapshot, i + 1, now)
             ELSE AssignLoop(
                    RemoveAssigned(AssignOrder(as.st, w, snapshot[i], now),
                                   as.pending, snapshot[i]),
                    snapshot, i + 1, now)

AssignOrders(st, pending, now) ==
    LET sorted == SortByPriority(pending, st.orders)
    IN  AssignLoop([st |-> st, pending |-> sorted], sorted, 1, now)

\* _update_stats(): the hotspot loop over one movement history
RECURSIVE CountVisits(_, _, _)
CountVisits(hot, hist, i) ==
    IF i > Len(hist) THEN hot
    ELSE LET pos == <<hist[i][2], hist[i][3]>>
             old == IF pos \in DOMAIN hot THEN hot[pos] ELSE 0
         IN  CountVisits((pos :> (old + 1)) @@ hot, hist, i + 1)

RECURSIVE CountAllVisits(_, _, _)
CountAllVisits(hot, ws, w) ==
    IF w > Len(ws) THEN hot
    ELSE CountAllVisits(CountVisits(hot, ws[w].movement_history, 1), ws, w + 1)

\* avg_order_completion_time is kept as the fraction num / den
AvgOrderCompletionTime(st, now) ==
    LET times == [k \in DOMAIN SelectSeq(st.completed,
                        LAMBDA i : st.orders[i].completed_time # NoTime) |->
                    GetProcessingTime(
                        st.orders[SelectSeq(st.completed,
                            LAMBDA i : st.orders[i].completed_time # NoTime)[k]],
                        now)]
    IN  IF st.completed # <<>> /\ times # <<>>
        THEN [num |-> SumSeq(times), den |-> Len(times)]
        ELSE [num |-> 0, den |-> 1]

UpdateStats(old, st, now) ==
    [total_orders |-> old.total_orders,
     completed_orders |-> Len(st.completed),
     total_items_picked |->
        SumSeq([w \in DOMAIN st.workers |-> st.workers[w].total_items_picked]),
     total_distance |->
        SumSeq([w \in DOMAIN st.workers |-> st.workers[w].total_distance]),
     avg_order_completion_time |-> AvgOrderCompletionTime(st, now),
     worker_utilization |->
        (([w \in DOMAIN st.workers |-> IF st.workers[w].is_busy THEN 1 ELSE 0])
            @@ old.worker_utilization),
     hotspots |-> CountAllVisits(old.hotspots, st.workers, 1)]

InitialStats ==
    [total_orders |-> 0, completed_orders |-> 0, total_items_picked |-> 0,
     total_distance |-> 0, avg_order_completion_time |-> [num |-> 0, den |-> 1],
     worker_utilization |-> <<>>,
     hotspots |-> [c \in {} |-> 0]]

\* -------------------------------------------------------------- actions ---
Init ==
    /\ width \in 1..MaxWidth
    /\ height \in 0..MaxHeight
    /\ Constructible(width, height)
    /\ grid = InitializeLayout(width, height)
    /\ walkable_paths = UpdateWalkablePaths(grid, width, height)
    /\ storage_locations = StorageLocations(grid, width, height)
    /\ picking_station = PickingStation(width, height)
    /\ adjacency_list = BuildNavigationGraph(grid, walkable_paths, width, height)
    /\ \E num_workers \in 1..MaxWorkers :
          workers = [i \in 1..num_workers |-> NewWorker(i, picking_station)]
    /\ orders = <<>>
    /\ pending_orders = <<>>
    /\ completed_orders = <<>>
    /\ current_time = 0
    /\ stats = InitialStats
    /\ wall \in WallEpoch..(WallEpoch + WallSpan)
    /\ aborted = FALSE
    /\ query = NoQuery
    /\ report = NoReport

\* mutant: random.choices instead of random.sample, items may repeat
Samples_WithRepeats(k) == [1..k -> Products]

\* random.sample(available_products, k): sequences of k distinct products
Samples(k) ==
    {s \in [1..k -> Products] : \A i, j \in 1..k : i # j => s[i] # s[j]}

Min(a, b) == IF a <= b THEN a ELSE b

CanCreateOrder ==
    ~aborted /\ Len(orders) < MaxOrders /\ current_time < GenWindow

\* generate_random_order(MinItems, MaxItems) with a non-empty product list
GenerateRandomOrder ==
    /\ CanCreateOrder
    /\ Products # {}
    /\ \E num_items \in MinItems..MaxItems :
       \E items \in Samples(Min(num_items, Cardinality(Products))) :
       \E priority \in 1..MaxPriority :
          LET new_order == NewOrder(Len(orders) + 1, items, priority, wall,
                                    current_time)
          IN  /\ orders' = Append(orders, new_order)
              /\ pending_orders' = Append(pending_orders, Len(orders) + 1)
              /\ stats' = [stats EXCEPT !.total_orders = @ + 1]
    /\ report' = NoReport
    /\ UNCHANGED <<topo, workers, completed_orders, current_time, wall,
                   aborted, query>>

\* an Order built by the caller, Order(order_id, items), and queued
ExternalItems ==
    {<<>>, <<UnknownProduct>>, <<UnknownProduct, 1>>, <<1, UnknownProduct>>}

SubmitOrder ==
    /\ CanCreateOrder
    /\ \E items \in ExternalItems :
          LET new_order == NewOrder(Len(orders) + 1, items, DefaultPriority,
                                    wall, current_time)
          IN  /\ orders' = Append(orders, new_order)
              /\ pending_orders' = Append(pending_orders, Len(orders) + 1)
    /\ report' = NoReport
    /\ UNCHANGED <<topo, workers, completed_orders, current_time, stats, wall,
                   aborted, query>>

\* update() after the workers' loop: assign_orders() and _update_stats(),
\* neither of them reached when a move raised
AssignAfterMove(moved, pending, now) ==
    IF moved.aborted THEN [st |-> moved, pending |-> pending]
    ELSE AssignOrders(moved, pending, now)

TickResult(as, sts, now) ==
    [workers |-> as.st.workers, orders |-> as.st.orders,
     completed |-> as.st.completed, pending |-> as.pending,
     stats |-> IF as.st.aborted THEN sts ELSE UpdateStats(sts, as.st, now),
     aborted |-> as.st.aborted]

\* mutant: update() assigns the pending orders before it moves the workers
MoveAfterAssign(as, t, now) ==
    [st |-> MoveWorkers(as.st, 1, t, now), pending |-> as.pending]

Tick_AssignsFirst(ws, os, pending, completed, sts, t, now) ==
    TickResult(
        MoveAfterAssign(
            AssignOrders([workers |-> ws, orders |-> os,
                          completed |-> completed, aborted |-> FALSE],
                         pending, now),
            t, now),
        sts, now)

\* the body of update() at simulated time t with host clock reading now
Tick(ws, os, pending, completed, sts, t, now) ==
    TickResult(
        AssignAfterMove(
            MoveWorkers([workers |-> ws, orders |-> os,
                         completed |-> completed, aborted |-> FALSE],
                        1, t, now),
            pending, now),
        sts, now)

\* the objects update() has written
Commit(new) ==
    /\ workers' = new.workers
    /\ orders' = new.orders
    /\ completed_orders' = new.completed
    /\ pending_orders' = new.pending
    /\ stats' = new.stats
    /\ aborted' = new.aborted

\* update(): one tick, of a run of `steps` ticks
UpdateWithin(steps) ==
    /\ ~aborted
    /\ current_time < steps
    /\ current_time' = current_time + time_step
    /\ Commit(Tick(workers, orders, pending_orders, completed_orders, stats,
                   current_time + time_step, wall))
    /\ report' = NoReport
    /\ UNCHANGED <<topo, wall, query>>

Update == UpdateWithin(MaxSteps)

Next == GenerateRandomOrder \/ SubmitOrder \/ Update

Spec == Init /\ [][Next]_vars

\* ------------------------------------------------------------- readers ---
\* The readers return a value to their caller and assign to no attribute of
\* the simulator, its workers or its orders.  Quotients are kept as the
\* fraction num / den.
Max1(n) == IF n < 1 THEN 1 ELSE n

Quotient(n, d) == [num |-> n, den |-> d]

\* generate_summary()
Summary ==
    [simulation_time |-> current_time,
     total_orders |-> stats.total_orders,
     completed_orders |-> stats.completed_orders,
     completion_rate |->
        Quotient(stats.completed_orders, Max1(stats.total_orders)),
     total_items_picked |-> stats.total_items_picked,
     total_distance |-> stats.total_distance,
     items_per_distance |->
        Quotient(stats.total_items_picked, Max1(stats.total_distance)),
     avg_order_completion_time |-> stats.avg_order_completion_time,
     worker_stats |->
        [w \in DOMAIN workers |->
            [worker_id |-> workers[w].worker_id,
             total_items_picked |-> workers[w].total_items_picked,
             total_distance |-> workers[w].total_distance,
             efficiency |-> Quotient(workers[w].total_items_picked,
                                     Max1(workers[w].total_distance)),
             activity_count |-> Len(workers[w].activity_log)]]]

\* mutant: the summary hands out the hotspot counters and starts them afresh
GenerateSummary_ResetsHotspots ==
    /\ report' = [op |-> "generate_summary", raised |-> FALSE,
                  value |-> Summary]
    /\ stats' = [stats EXCEPT !.hotspots = [c \in {} |-> 0]]
    /\ UNCHANGED <<topo, workers, orders, pending_orders, completed_orders,
                   current_time, wall, aborted, query>>

GenerateSummary ==
    /\ report' = [op |-> "generate_summary", raised |-> FALSE,
                  value |-> Summary]
    /\ UNCHANGED <<topo, workers, orders, pending_orders, completed_orders,
                   current_time, stats, wall, aborted, query>>

\* EfficiencyAnalyzer.analyze_order_processing(sim.orders): one row per order
OrderRow(o, now) ==
    [order_id |-> o.order_id,
     priority |-> o.priority,
     original_items |-> IF IsCompleted(o) THEN 0 ELSE Len(o.items),
     remaining_items |-> Len(o.items),
     created_time |-> o.created_time,
     completed_time |-> o.completed_time,
     processing_time |-> GetProcessingTime(o, now),
     is_completed |-> IsCompleted(o),
     assigned_worker |-> o.assigned_worker]

AnalyzeOrderProcessing ==
    /\ report' = [op |-> "analyze_order_processing", raised |-> FALSE,
                  value |-> [i \in DOMAIN orders |-> OrderRow(orders[i], wall)]]
    /\ UNCHANGED <<topo, workers, orders, pending_orders, completed_orders,
                   current_time, stats, wall, aborted, query>>

\* EfficiencyAnalyzer.analyze_worker_efficiency(sim.workers, sim.current_time):
\* distance_per_item = total_distance / max(1, picked), items_per_second =
\* picked / max(1, current_time), and the score (1 / distance_per_item) *
\* items_per_second
WorkerRow(wk, t) ==
    [worker_id |-> wk.worker_id,
     total_distance |-> wk.total_distance,
     total_items_picked |-> wk.total_items_picked,
     distance_per_item |->
        Quotient(wk.total_distance, Max1(wk.total_items_picked)),
     items_per_second |-> Quotient(wk.total_items_picked, Max1(t)),
     efficiency_score |->
        Quotient(Max1(wk.total_items_picked) * wk.total_items_picked,
                 wk.total_distance * Max1(t))]

\* 1 / distance_per_item raises ZeroDivisionError for a worker that has not
\* moved yet; no row list is returned then
AnalyzeWorkerEfficiency ==
    /\ report' =
          IF \E w \in DOMAIN workers : workers[w].total_distance = 0
          THEN [op |-> "analyze_worker_efficiency", raised |-> TRUE,
                value |-> <<>>]
          ELSE [op |-> "analyze_worker_efficiency", raised |-> FALSE,
                value |-> [w \in DOMAIN workers |->
                              WorkerRow(workers[w], current_time)]]
    /\ UNCHANGED <<topo, workers, orders, pending_orders, completed_orders,
                   current_time, stats, wall, aborted, query>>

\* a run on the ReportWidth x ReportHeight layout whose caller takes reports
\* between the operations
InitReport ==
    /\ Init
    /\ width = ReportWidth
    /\ height = ReportHeight
    /\ Len(workers) <= ReportWorkers

NextReport ==
    \/ Next
    \/ GenerateSummary
    \/ AnalyzeOrderProcessing
    \/ AnalyzeWorkerEfficiency

ReportSpec == InitReport /\ [][NextReport]_vars

\* -------------------------------------------------- runs to their end ---
\* run_simulation(LiveSteps, ...) on a layout of width and height 2 or more:
\* the loop calls update() in every step, so a tick that can be taken is
\* taken; orders are created in the first GenWindow steps only.
InitLive ==
    /\ Init
    /\ width >= 2
    /\ height >= 2

LiveUpdate == UpdateWithin(LiveSteps)

NextLive == GenerateRandomOrder \/ SubmitOrder \/ LiveUpdate

\* A step is a LiveUpdate step exactly when it advances current_time, and
\* LiveUpdate is enabled exactly when its two guards hold: fairness of the
\* loop is stated on the guards and the clock of LiveUpdate.
LiveClock ==
    /\ ~aborted
    /\ current_time < LiveSteps
    /\ current_time' = current_time + time_step

LiveSpec == InitLive /\ [][NextLive]_vars /\ WF_current_time(LiveClock)

\* ------------------------------------------------------ edited layouts ---
\* A layout edited after construction: the caller sets grid cells to 1
\* (shelf) and re-runs _update_walkable_paths() and _build_navigation_graph().
\* storage_locations keeps the products of the constructed layout.
BlockCells(g, blocked) ==
    [c \in DOMAIN g |-> IF c \in blocked THEN SHELF ELSE g[c]]

\* On the 5x5 layout (shelves (2,1) (2,2) (2,3), station (1,3)) these cells
\* cut the aisles into the station's region, the region (2,0) (3,0) (4,0)
\* (4,1) that product 1 snaps into, and the lone cell (3,2) that product 2
\* snaps to; product 3 snaps to the station itself.
EditedLayouts ==
    { {<<1, 0>>, <<1, 2>>, <<3, 1>>, <<3, 3>>, <<4, 2>>} }

InitEdited ==
    /\ width = EditedWidth
    /\ height = EditedHeight
    /\ \E blocked \in EditedLayouts :
          grid = BlockCells(InitializeLayout(width, height), blocked)
    /\ walkable_paths = UpdateWalkablePaths(grid, width, height)
    /\ storage_locations =
          StorageLocations(InitializeLayout(width, height), width, height)
    /\ picking_station = PickingStation(width, height)
    /\ adjacency_list = BuildNavigationGraph(grid, walkable_paths, width, height)
    /\ \E num_workers \in 1..MaxWorkers :
          workers = [i \in 1..num_workers |-> NewWorker(i, picking_station)]
    /\ orders = <<>>
    /\ pending_orders = <<>>
    /\ completed_orders = <<>>
    /\ current_time = 0
    /\ stats = InitialStats
    /\ wall \in WallEpoch..(WallEpoch + WallSpan)
    /\ aborted = FALSE
    /\ query = NoQuery
    /\ report = NoReport

EditedSpec == InitEdited /\ [][Next]_vars

\* ------------------------------------------------------ direct queries ---
\* A WarehouseMap on its own, queried through get_nearest_walkable() and
\* find_shortest_path().  The map is either as constructed, or constructed
\* and then given any grid of aisle and shelf cells, with the walkable list
\* and the adjacency map rebuilt (storage_locations and picking_station stay
\* as constructed).  Each behaviour makes one call: the queries do not write
\* the map, so a second call would see what the first one saw.
Grids(w, h) ==
    (IF w <= GridWidth /\ h <= GridHeight
     THEN [CellSet(w, h) -> {AISLE, SHELF}] ELSE {})
    \cup {InitializeLayout(w, h)}

InitMap ==
    /\ \E w \in 2..LayoutWidth, h \in 1..LayoutHeight :
          /\ Constructible(w, h)
          /\ width = w
          /\ height = h
          /\ grid \in Grids(w, h)
    /\ walkable_paths = UpdateWalkablePaths(grid, width, height)
    /\ storage_locations =
          StorageLocations(InitializeLayout(width, height), width, height)
    /\ picking_station = PickingStation(width, height)
    /\ adjacency_list = BuildNavigationGraph(grid, walkable_paths, width, height)
    /\ workers = <<>>
    /\ orders = <<>>
    /\ pending_orders = <<>>
    /\ completed_orders = <<>>
    /\ current_time = 0
    /\ stats = InitialStats
    /\ wall = WallEpoch
    /\ aborted = FALSE
    /\ query = NoQuery
    /\ report = NoReport

\* the positions handed to a query: every cell, the out-of-grid position a
\* worker of a height-1 map starts from, and one beyond the far corner
Positions ==
    CellSet(width, height) \cup {<<1, -1>>, <<width, height - 1>>}

Starts ==
    IF width * height <= AllPairsCells THEN Positions ELSE {picking_station}

\* get_nearest_walkable() has no raise statement and unpacks a pair: it
\* returns, with None when walkable_paths is empty
GetNearestWalkableCall ==
    /\ query = NoQuery
    /\ \E pos \in Positions :
          query' = [op |-> "get_nearest_walkable", pos |-> pos,
                    nearest |-> GetNearestWalkable(walkable_paths, pos),
                    raised |-> FALSE]
    /\ UNCHANGED <<topo, workers, orders, pending_orders, completed_orders,
                   current_time, stats, wall, aborted, report>>

FindShortestPathCall ==
    /\ query = NoQuery
    /\ \E start \in Starts, end \in Positions :
          query' = [op |-> "find_shortest_path", start |-> start, end |-> end,
                    found |-> ShortestPath(start, end)]
    /\ UNCHANGED <<topo, workers, orders, pending_orders, completed_orders,
                   current_time, stats, wall, aborted, report>>

NextMap == GetNearestWalkableCall \/ FindShortestPathCall

MapSpec == InitMap /\ [][NextMap]_vars

\* ------------------------------------------------------------- claims ---
Count(seq, Test(_)) == Len(SelectSeq(seq, Test))

TotalPicked ==
    SumSeq([w \in DOMAIN workers |-> workers[w].total_items_picked])

TotalDistance ==
    SumSeq([w \in DOMAIN workers |-> workers[w].total_distance])

\* hops of the route from the picking station to an item's snapped cell
HopsFromStation(item) ==
    Len(AStarPath(adjacency_list,
                  GetNearestWalkable(walkable_paths, picking_station),
                  GetNearestWalkable(walkable_paths, storage_locations[item]),
                  width)) - 1

\* the 5x5 scenario: one worker, a single order queued before the first tick
\* holding one item whose snapped storage cell is 4 hops from the station
ScenarioRun ==
    /\ width = 5 /\ height = 5
    /\ Len(workers) = 1
    /\ Len(orders) = 1
    /\ orders[1].created_tick = 0
    /\ Len(orders[1].original_items) = 1
    /\ orders[1].original_items[1] \in Products
    /\ HopsFromStation(orders[1].original_items[1]) = 4

\* C1: in the 5x5 scenario, after 20 ticks with no further order the
\* statistics show one completed order, one item picked and distance 8.
C1_ScenarioOutcome ==
    (ScenarioRun /\ current_time = 20) =>
        /\ stats.completed_orders = 1
        /\ stats.total_items_picked = 1
        /\ stats.total_distance = 8

C1_Witness ==
    /\ ScenarioRun /\ current_time = 20
    /\ workers[1].position = <<1, 3>>
    /\ stats.completed_orders = 1

AssignedOrders == {i \in DOMAIN orders : orders[i].assigned_worker # NoWorker}

OriginalOfAssigned ==
    SumSeq([i \in DOMAIN orders |->
              IF i \in AssignedOrders THEN Len(orders[i].original_items) ELSE 0])

BacklogOfAssigned ==
    SumSeq([i \in DOMAIN orders |->
              IF i \in AssignedOrders THEN Len(orders[i].items) ELSE 0])

IsMissingEntry(e) == e[2] = "missing"

TotalDropped ==
    SumSeq([w \in DOMAIN workers |->
              Count(workers[w].activity_log, IsMissingEntry)])

\* C3 as stated: the items picked by all workers equal the original item
\* count of the assigned orders minus their current backlog.
C3_Conservation ==
    TotalPicked = OriginalOfAssigned - BacklogOfAssigned

\* C3 amended: the items picked plus the items dropped as unknown (one
\* "location not found" activity-log entry each) equal the original item
\* count of the assigned orders minus their current backlog.
C3_ConservationWithDrops ==
    TotalPicked + TotalDropped = OriginalOfAssigned - BacklogOfAssigned

C3_Witness ==
    /\ TotalPicked > 0
    /\ TotalDropped > 0
    /\ BacklogOfAssigned > 0

\* C4: a completed order has an empty backlog and completedAt >= createdAt.
C4_OrderInvariant ==
    \A i \in DOMAIN orders :
        IsCompleted(orders[i]) =>
            /\ orders[i].items = <<>>
            /\ orders[i].completed_time >= orders[i].created_time

VisitsInHistory(c) ==
    SumSeq([w \in DOMAIN workers |->
              Count(workers[w].movement_history,
                    LAMBDA e : <<e[2], e[3]>> = c)])

HotspotValue(c) ==
    IF c \in DOMAIN stats.hotspots THEN stats.hotspots[c] ELSE 0

\* C5: the hotspot value of every cell is the number of movement-history
\* entries at that cell, summed over the workers.
C5_HotspotsAreVisitCounts ==
    \A c \in DOMAIN grid \cup DOMAIN stats.hotspots :
        HotspotValue(c) = VisitsInHistory(c)

\* a step of update(): the only action that advances current_time
IsTick == current_time' = current_time + time_step

\* idle when assign_orders() runs in this tick: idle at the end of the tick,
\* or holding an order that was still pending when the tick began
IdleAtAssignment(w) ==
    \/ ~workers'[w].is_busy
    \/ workers'[w].current_order \in Range(pending_orders)

LowestIdleAtAssignment ==
    CHOOSE w \in DOMAIN workers :
        IdleAtAssignment(w) /\ \A v \in DOMAIN workers :
                                  v < w => ~IdleAtAssignment(v)

\* C6: in a tick with a pending order and an idle worker at the assignment
\* step, the lowest-id idle worker gets a pending order of the smallest
\* priority value, and a pending order whose priority value is strictly the
\* smallest is assigned to that worker.
C6_PriorityFirstFit ==
    [][(/\ IsTick
        /\ pending_orders # <<>>
        /\ \E w \in DOMAIN workers : IdleAtAssignment(w)) =>
          LET w == LowestIdleAtAssignment
              o == workers'[w].current_order
          IN  /\ o \in Range(pending_orders)
              /\ \A q \in Range(pending_orders) :
                    orders[o].priority <= orders[q].priority
              /\ orders'[o].assigned_worker = workers[w].worker_id
              /\ \A p \in Range(pending_orders) :
                    (\A q \in Range(pending_orders) \ {p} :
                        orders[p].priority < orders[q].priority)
                    => orders'[p].assigned_worker = workers[w].worker_id]_vars

\* two idle workers, a low-priority order queued before a high-priority one
C6_Witness ==
    /\ Len(workers) = 2 /\ Len(orders) = 2
    /\ orders[1].priority = 3 /\ orders[2].priority = 1
    /\ orders[1].created_tick = orders[2].created_tick
    /\ current_time = orders[1].created_tick + 1
    /\ orders[2].assigned_worker = 1
    /\ orders[1].assigned_worker = 2

\* C7: a worker is busy exactly when it holds a current order.
C7_BusyIffCurrentOrder ==
    \A w \in DOMAIN workers :
        workers[w].is_busy <=> workers[w].current_order # NoOrder

\* one worker in the middle of an order, another idle again after completing one
C7_Witness ==
    /\ \E w \in DOMAIN workers :
          workers[w].is_busy /\ workers[w].current_order # NoOrder
    /\ \E w \in DOMAIN workers :
          /\ ~workers[w].is_busy /\ workers[w].current_order = NoOrder
          /\ \E i \in DOMAIN orders :
                orders[i].assigned_worker = w /\ IsCompleted(orders[i])

\* C8: every worker stands on an in-bounds cell that is no shelf.
C8_PositionWalkable ==
    \A w \in DOMAIN workers :
        /\ workers[w].position \in DOMAIN grid
        /\ grid[workers[w].position] # SHELF

\* the worker's move() takes a step in this tick
Moves(w) ==
    /\ workers[w].is_busy
    /\ workers[w].path # <<>>
    /\ workers[w].path_index < Len(workers[w].path)

StepTarget(w) == workers[w].path[workers[w].path_index + 1]

\* C9: in every tick a moving worker with pathIndex < path.length changes
\* position to a 4-neighbour cell and adds exactly 1 to totalDistance.
C9_OneCellPerTick ==
    [][IsTick =>
        \A w \in DOMAIN workers :
            Moves(w) =>
                /\ Manhattan(workers'[w].position, workers[w].position) = 1
                /\ workers'[w].total_distance = workers[w].total_distance + 1]_vars

RECURSIVE LeadingUnknown(_)
LeadingUnknown(b) ==
    IF b = <<>> \/ Head(b) \in Products THEN 0
    ELSE 1 + LeadingUnknown(Tail(b))

\* what a tick leaves behind when worker w plans for order o with backlog b
\* whose first items are unknown; picks = items picked by w in this tick
SkipEffect(w, o, b, picks) ==
    LET k      == LeadingUnknown(b)
        rest   == SubSeq(b, k + 1, Len(b))
        pos    == IF Moves(w) THEN StepTarget(w) ELSE workers[w].position
        log    == workers'[w].activity_log
        n      == Len(log)
        target == IF rest = <<>> THEN picking_station
                  ELSE storage_locations[rest[1]]
    IN  /\ orders'[o].items = rest
        /\ n >= Len(workers[w].activity_log) + k + 1
        /\ SubSeq(log, 1, Len(workers[w].activity_log)) = workers[w].activity_log
        /\ \A i \in 1..k :
              /\ log[n - k - 1 + i][2] = "missing"
              /\ log[n - k - 1 + i][3] = b[i]
        /\ IF rest = <<>> THEN log[n][2] = "returning"
           ELSE log[n][2] = "planned" /\ log[n][3] = rest[1]
        /\ workers'[w].position = pos
        /\ workers'[w].total_distance = workers[w].total_distance +
              (IF Moves(w) THEN Manhattan(pos, workers[w].position) ELSE 0)
        /\ workers'[w].total_items_picked = workers[w].total_items_picked + picks
        /\ workers'[w].movement_history =
              (IF Moves(w)
               THEN Append(workers[w].movement_history,
                           <<current_time', pos[1], pos[2]>>)
               ELSE workers[w].movement_history)
        /\ workers'[w].path = ShortestPath(pos, target).path
        /\ workers'[w].path_index = 0
        /\ workers'[w].current_order = o
        /\ current_time' = current_time + time_step

\* C10: when planning meets a front backlog item without a storage location
\* (at assignment, or after a pick), the worker logs an anomaly for it, the
\* item leaves the backlog and planning goes on to the next item or to the
\* picking station; position, totalDistance, totalItemsPicked and
\* movementHistory are what the tick's own movement and pick made them, and
\* the tick advances the simulated time by one time step only.
C10_UnknownItemSkipped ==
    [][IsTick =>
        \A w \in DOMAIN workers :
            /\ \A o \in Range(pending_orders) :
                  (workers'[w].current_order = o
                     /\ LeadingUnknown(orders[o].items) > 0)
                  => SkipEffect(w, o, orders[o].items, 0)
            /\ LET o == workers[w].current_order
               IN  (/\ Moves(w)
                    /\ workers[w].path_index + 1 = Len(workers[w].path)
                    /\ o # NoOrder
                    /\ orders[o].items # <<>>
                    /\ LeadingUnknown(Tail(orders[o].items)) > 0)
                   => SkipEffect(w, o, Tail(orders[o].items), 1)]_vars

\* an anomaly entry directly followed by the route to the next, known item,
\* with nothing moved or picked yet
C10_Witness ==
    \E w \in DOMAIN workers :
        /\ workers[w].total_distance = 0
        /\ workers[w].movement_history = <<>>
        /\ workers[w].is_busy
        /\ \E i \in 1..(Len(workers[w].activity_log) - 1) :
              /\ workers[w].activity_log[i][2] = "missing"
              /\ workers[w].activity_log[i + 1][2] = "planned"

\* a busy worker whose planned path is empty
Stalled(w) == workers[w].is_busy /\ workers[w].path = <<>>

\* C11: a busy worker with an empty path holds an order that is not completed,
\* and every step leaves it busy with the same order, an empty path and the
\* same position, pathIndex, totalDistance and movementHistory; its order
\* stays uncompleted and out of the completed list.
C11_StallPersists ==
    /\ [](\A w \in DOMAIN workers :
            Stalled(w) =>
                /\ workers[w].current_order # NoOrder
                /\ ~IsCompleted(orders[workers[w].current_order])
                /\ ~Contains(completed_orders, workers[w].current_order))
    /\ [][\A w \in DOMAIN workers :
            Stalled(w) =>
                /\ workers'[w].is_busy
                /\ workers'[w].path = <<>>
                /\ workers'[w].current_order = workers[w].current_order
                /\ workers'[w].position = workers[w].position
                /\ workers'[w].path_index = workers[w].path_index
                /\ workers'[w].total_distance = workers[w].total_distance
                /\ workers'[w].movement_history = workers[w].movement_history
                /\ orders'[workers[w].current_order].completed_time = NoTime
                /\ ~Contains(completed_orders', workers[w].current_order)]_vars

\* a worker stalled since the first tick, at the end of a run in which the
\* other worker has completed an order
C11_Witness ==
    /\ ~aborted
    /\ current_time = MaxSteps
    /\ completed_orders # <<>>
    /\ \E w \in DOMAIN workers :
          /\ Stalled(w)
          /\ workers[w].movement_history = <<>>
          /\ orders[workers[w].current_order].created_tick = 0

\* C12: no tick aborts the run: update() returns normally in every tick,
\* whatever the workers and orders are doing, so that run_simulation(steps)
\* goes on to its configured tick count.
C12_RunNeverAborts == ~aborted

\* the activity-log entries stamped with time.time() (the others carry the
\* simulated time)
IsHostStamp(e) == e[2] \in {"received", "returning", "planned", "missing"}

\* The same run started d seconds later on the host clock, with the same
\* pseudo-random choices: every value read from time.time() is d larger.
LaterOrders(d) ==
    [i \in DOMAIN orders |-> [orders[i] EXCEPT !.created_time = @ + d]]

LaterWorkers(d) ==
    [w \in DOMAIN workers |->
        [workers[w] EXCEPT !.activity_log =
            [k \in DOMAIN @ |->
                IF IsHostStamp(@[k]) THEN [@[k] EXCEPT ![1] = @ + d]
                ELSE @[k]]]]

LaterTick(d) ==
    Tick(LaterWorkers(d), LaterOrders(d), pending_orders, completed_orders,
         stats, current_time + time_step, wall + d)

MovementHistories(ws) == [w \in DOMAIN ws |-> ws[w].movement_history]

SameOutcome(new) ==
    /\ MovementHistories(new.workers) = MovementHistories(workers')
    /\ new.stats = stats'
    /\ new.pending = pending_orders'
    /\ new.completed = completed_orders'

\* C13: a tick of a second run with the same topology, workers, orders and
\* choices, whose host-clock readings all differ from this run's, leaves the
\* same movementHistory for every worker and the same stats (and the same
\* pending and completed lists, so that the runs stay in step).
C13_Deterministic ==
    [][IsTick => \A d \in 1..ClockDrift : SameOutcome(LaterTick(d))]_vars

\* two orders completed at different ticks, so that the average completion
\* time has been computed from order timestamps
C13_Witness ==
    /\ Len(completed_orders) = 2
    /\ stats.completed_orders = 2
    /\ orders[1].completed_time # orders[2].completed_time
    /\ stats.avg_order_completion_time.den = 2
    /\ \E w \in DOMAIN workers : Len(workers[w].movement_history) > 2

\* the sweep of update() run once more for worker w on the current state
SweptAgain(w) ==
    SweepIfIdle([workers |-> workers, orders |-> orders,
                 completed |-> completed_orders, aborted |-> FALSE], w)

\* C14: the completed list holds exactly the orders for which is_completed()
\* is true, each of them once, and running the sweep again for any worker
\* adds no entry.
C14_SweepExact ==
    /\ Range(completed_orders) = {i \in DOMAIN orders : IsCompleted(orders[i])}
    /\ \A j, k \in DOMAIN completed_orders :
          j # k => completed_orders[j] # completed_orders[k]
    /\ \A w \in DOMAIN workers : SweptAgain(w).completed = completed_orders

\* one worker has completed two orders, one after the other, and is idle
C14_Witness ==
    /\ Len(orders) = 2
    /\ Len(completed_orders) = 2
    /\ orders[1].assigned_worker = orders[2].assigned_worker
    /\ IsCompleted(orders[1]) /\ IsCompleted(orders[2])
    /\ ~workers[orders[1].assigned_worker].is_busy

\* C15: once an order's assigned_worker is set, every step leaves it as it
\* is: it is neither cleared nor changed to another worker, and the
\* completion of the order keeps it.
C15_AssignedWorkerWriteOnce ==
    [][\A i \in DOMAIN orders :
          orders[i].assigned_worker # NoWorker =>
              orders'[i].assigned_worker = orders[i].assigned_worker]_vars

\* a completed order still names its worker, who is busy with the next order
C15_Witness ==
    \E i, k \in DOMAIN orders :
        /\ i # k
        /\ IsCompleted(orders[i])
        /\ orders[i].assigned_worker # NoWorker
        /\ orders[k].assigned_worker = orders[i].assigned_worker
        /\ workers[orders[i].assigned_worker].current_order = k

\* C16: after every tick the aggregate counters agree with the snapshot:
\* completed_orders with the completed list, total_items_picked and
\* total_distance with the sums over the workers, total_orders with the
\* master log of orders.
C16_StatsConsistent ==
    [][IsTick =>
        /\ stats'.completed_orders = Len(completed_orders')
        /\ stats'.total_items_picked =
              SumSeq([w \in DOMAIN workers' |-> workers'[w].total_items_picked])
        /\ stats'.total_distance =
              SumSeq([w \in DOMAIN workers' |-> workers'[w].total_distance])
        /\ stats'.total_orders = Len(orders')]_vars

\* cells that are no shelf, and their 4-neighbours of the same kind
Walkable(c) == c \in DOMAIN grid /\ grid[c] # SHELF

WalkableNeighbours(c) ==
    {n \in DOMAIN grid : Walkable(n) /\ Manhattan(n, c) = 1}

\* breadth-first search over the grid: the hops from the cells of `frontier`
\* (n hops from the origin) to target, -1 when it is out of reach
RECURSIVE BfsHops(_, _, _, _)
BfsHops(seen, frontier, target, n) ==
    IF target \in frontier THEN n
    ELSE IF frontier = {} THEN -1
    ELSE LET next == UNION {WalkableNeighbours(c) : c \in frontier} \ seen
         IN  BfsHops(seen \cup next, next, target, n + 1)

HopCount(a, b) == BfsHops({a}, {a}, b, 0)

\* connected: joined by a chain of adjacency-map edges (a lone cell has no
\* edge and is joined to nothing, itself included)
Joined(a, b) == WalkableNeighbours(a) # {} /\ HopCount(a, b) >= 0

IsPathQuery == query.op = "find_shortest_path"

SnappedStart == GetNearestWalkable(walkable_paths, query.start)

SnappedEnd == GetNearestWalkable(walkable_paths, query.end)

\* C17: when the snapped cells of a and b are connected, shortestPath(a, b)
\* returns a path from nearestWalkable(a) to nearestWalkable(b) over
\* consecutive 4-adjacent walkable cells whose hop count is the breadth-first
\* hop count between the two snapped cells.
C17_PathOptimal ==
    (IsPathQuery /\ SnappedStart # NonePos /\ Joined(SnappedStart, SnappedEnd))
    => LET path == query.found.path
       IN  /\ ~query.found.raised
           /\ path # <<>>
           /\ Len(path) - 1 = HopCount(SnappedStart, SnappedEnd)
           /\ path[1] = SnappedStart
           /\ path[Len(path)] = SnappedEnd
           /\ \A k \in DOMAIN path : Walkable(path[k])
           /\ \A k \in 1..(Len(path) - 1) :
                 Manhattan(path[k], path[k + 1]) = 1

\* both endpoints are snapped off a shelf and the route has to go round
\* shelves: it is longer than the Manhattan distance of the snapped cells
C17_Witness ==
    /\ IsPathQuery
    /\ query.start \in DOMAIN grid /\ ~Walkable(query.start)
    /\ query.end \in DOMAIN grid /\ ~Walkable(query.end)
    /\ ~query.found.raised
    /\ Len(query.found.path) - 1 > Manhattan(SnappedStart, SnappedEnd)

\* cells reached from the picking station along the adjacency map
RECURSIVE AdjacencyReach(_, _)
AdjacencyReach(seen, frontier) ==
    IF frontier = {} THEN seen
    ELSE LET next == UNION {Range(adjacency_list[u]) : u \in frontier} \ seen
         IN  AdjacencyReach(seen \cup next, next)

ReachedFromStation ==
    IF picking_station \in DOMAIN adjacency_list
    THEN AdjacencyReach({picking_station}, {picking_station})
    ELSE {}

\* C18: in every constructed layout each cell that is no shelf is reached
\* from the picking station through the adjacency map.
C18_Connected ==
    (query = NoQuery /\ grid = InitializeLayout(width, height))
    => \A c \in DOMAIN grid : grid[c] # SHELF => c \in ReachedFromStation

\* row-major scan order: y outer, x inner
ScannedNoLater(a, b) == a[2] < b[2] \/ (a[2] = b[2] /\ a[1] <= b[1])

\* C19: nearestWalkable(pos) is pos when pos is walkable; otherwise it is a
\* walkable cell at minimal Manhattan distance from pos, the first in
\* row-major scan order among the cells at that distance.
C19_NearestWalkable ==
    query.op = "get_nearest_walkable" =>
        IF Walkable(query.pos) THEN query.nearest = query.pos
        ELSE (\E c \in DOMAIN grid : Walkable(c)) =>
                /\ Walkable(query.nearest)
                /\ \A c \in DOMAIN grid :
                      Walkable(c) =>
                        \/ Manhattan(query.nearest, query.pos)
                              < Manhattan(c, query.pos)
                        \/ /\ Manhattan(query.nearest, query.pos)
                                = Manhattan(c, query.pos)
                           /\ ScannedNoLater(query.nearest, c)

\* a shelf cell with equidistant walkable cells before and after it in the
\* scan: the earlier one is returned
C19_Witness ==
    /\ query.op = "get_nearest_walkable"
    /\ query.pos \in DOMAIN grid /\ ~Walkable(query.pos)
    /\ query.nearest # NonePos
    /\ \E c \in DOMAIN grid :
          /\ Walkable(c) /\ c # query.nearest
          /\ Manhattan(c, query.pos) = Manhattan(query.nearest, query.pos)

\* C20: when the snapped cells of a and b are not connected (a snapped cell
\* without a walkable neighbour included), shortestPath(a, b) returns the
\* empty sequence and raises no error.
C20_EmptyOnUnreachable ==
    (/\ IsPathQuery
     /\ SnappedStart # NonePos
     /\ ~Joined(SnappedStart, SnappedEnd))
    => (~query.found.raised /\ query.found.path = <<>>)

\* the entries _plan_path_to_next_item() writes when it has planned a route
IsRouteEntry(e) == e[2] \in {"planned", "returning"}

LastEntry(w) == workers[w].activity_log[Len(workers[w].activity_log)]

\* C21: whenever planning has left a worker with an empty path because no
\* route exists, the entry it wrote into the worker's activityLog reports the
\* unreachable target: it is an anomaly entry, not the route-planned entry.
C21_UnreachableRecorded ==
    \A w \in DOMAIN workers : Stalled(w) => ~IsRouteEntry(LastEntry(w))

\* C22: nearestWalkable on a topology without a walkable cell fails with an
\* error; it does not return an absent position.
C22_NoWalkableCellsError ==
    (query.op = "get_nearest_walkable" /\ walkable_paths = <<>>)
    => (query.raised /\ query.nearest # NonePos)

IsReport == report' # NoReport

\* the tick that update() would run from the state before / after a step
TickBefore ==
    Tick(workers, orders, pending_orders, completed_orders, stats,
         current_time + time_step, wall)

TickAfter ==
    Tick(workers', orders', pending_orders', completed_orders', stats',
         current_time' + time_step, wall')

\* C23: generating the summary and running the order and worker analysis
\* readers leaves workers, orders, pending, completed, currentTime and stats
\* (and the topology) as they were, so that the next tick after a report is
\* the tick that would have run without it.
C23_ReportingReadOnly ==
    [][IsReport =>
        /\ UNCHANGED <<workers, orders, pending_orders, completed_orders,
                       current_time, stats, topo>>
        /\ TickAfter = TickBefore]_vars

\* a summary taken in the middle of a run: one order completed, a worker on
\* its way with the next one
C23_Witness ==
    /\ report.op = "generate_summary"
    /\ report.value.completed_orders = 1
    /\ report.value.simulation_time < MaxSteps
    /\ \E w \in DOMAIN workers :
          workers[w].is_busy /\ workers[w].movement_history # <<>>

\* the worker's move() in this tick takes the last step of its path
ReachesPathEnd(w) ==
    Moves(w) /\ workers[w].path_index + 1 = Len(workers[w].path)

\* C24: an order's completedAt is set only in a tick in which the move of its
\* assigned worker, who holds it, reaches the end of the path with the
\* backlog empty and stands on the picking station; completedAt is that
\* tick's currentTime; the worker's pickedItems are empty after it and the
\* worker has let go of the order: it is idle without an order, or the
\* assignment step of the same tick has handed it an order from pending.
C24_CompletionStep ==
    [][\A i \in DOMAIN orders :
          (orders[i].completed_time = NoTime
             /\ orders'[i].completed_time # NoTime)
          => LET w == orders[i].assigned_worker
             IN  /\ IsTick
                 /\ w \in DOMAIN workers
                 /\ workers[w].current_order = i
                 /\ ReachesPathEnd(w)
                 /\ orders[i].items = <<>>
                 /\ StepTarget(w) = picking_station
                 /\ orders'[i].completed_time = current_time'
                 /\ workers'[w].picked_items = <<>>
                 /\ \/ /\ workers'[w].current_order = NoOrder
                       /\ ~workers'[w].is_busy
                    \/ /\ workers'[w].current_order \in Range(pending_orders)
                       /\ workers'[w].current_order # i
                       /\ workers'[w].is_busy]_vars

\* an order with picked items completed in this tick by a worker who is idle
\* now, nothing being pending
C24_Witness ==
    \E i \in DOMAIN orders :
        /\ orders[i].completed_time = current_time
        /\ orders[i].original_items # <<>>
        /\ orders[i].items = <<>>
        /\ workers[orders[i].assigned_worker].total_items_picked > 0
        /\ ~workers[orders[i].assigned_worker].is_busy
        /\ workers[orders[i].assigned_worker].picked_items = <<>>
        /\ workers[orders[i].assigned_worker].position = picking_station

Holders(i) == {w \in DOMAIN workers : workers[w].current_order = i}

InPending(i) ==
    Contains(pending_orders, i) /\ orders[i].assigned_worker = NoWorker

HeldByItsWorker(i) ==
    /\ Cardinality(Holders(i)) = 1
    /\ \A w \in Holders(i) : workers[w].worker_id = orders[i].assigned_worker

InCompleted(i) == Contains(completed_orders, i) /\ IsCompleted(orders[i])

Truth(b) == IF b THEN 1 ELSE 0

\* C25: every order of the master log is in exactly one of three states: in
\* pending with assignedWorker unset; held as currentOrder by exactly one
\* worker, whose id is its assignedWorker; in completed with isCompleted()
\* true.  No order is held by two workers, none is both pending and
\* completed, and the lists name orders of the master log only.
C25_LifecyclePartition ==
    /\ \A i \in DOMAIN orders :
          /\ Truth(InPending(i)) + Truth(HeldByItsWorker(i))
                + Truth(InCompleted(i)) = 1
          /\ Truth(Contains(pending_orders, i)) + Truth(Holders(i) # {})
                + Truth(Contains(completed_orders, i)) = 1
          /\ Cardinality(Holders(i)) <= 1
    /\ Range(pending_orders) \cup Range(completed_orders) \subseteq DOMAIN orders
    /\ \A w \in DOMAIN workers :
          workers[w].current_order \in DOMAIN orders \cup {NoOrder}

\* after a tick: one order completed and swept, the other on its way with a
\* different worker
C25_Witness ==
    /\ current_time > 0
    /\ \E i, k \in DOMAIN orders :
          /\ InCompleted(i)
          /\ HeldByItsWorker(k)
          /\ orders[k].assigned_worker # orders[i].assigned_worker
          /\ orders[k].items # <<>>

\* the workers as step 3 of this tick (the moves and the sweep) leaves them
MovedWorkers ==
    MoveWorkers([workers |-> workers, orders |-> orders,
                 completed |-> completed_orders, aborted |-> FALSE],
                1, current_time + time_step, wall).workers

\* the worker is given an order by the assignment step of this tick
AssignedInTick(w) == workers'[w].current_order \in Range(pending_orders)

RECURSIVE LastReceived(_, _)
LastReceived(log, k) ==
    IF k = 0 \/ log[k][2] = "received" THEN k ELSE LastReceived(log, k - 1)

\* holding an order for which no move() has been made yet: the cursor is at
\* 0 and nothing but planning entries follow the receipt in the log
NotMovedYet(wk) ==
    /\ wk.is_busy
    /\ wk.path_index = 0
    /\ LET r == LastReceived(wk.activity_log, Len(wk.activity_log))
       IN  /\ r > 0
           /\ \A k \in (r + 1)..Len(wk.activity_log) :
                 wk.activity_log[k][2] \in {"missing", "planned", "returning"}

\* C26: movement precedes assignment within a tick.  A worker assigned an
\* order in tick t has, at the end of the tick, the position, totalDistance
\* and movementHistory that the movement step of the tick left (those of
\* the start of the tick when it was idle then) and pathIndex 0; the
\* workers that have not moved for their order yet are exactly those
\* assigned in the tick; and such a worker's next tick appends the first
\* movementHistory entry for the order, stamped t + 1.
C26_MovementPrecedesAssignment ==
    [][IsTick =>
        \A w \in DOMAIN workers :
            /\ AssignedInTick(w) =>
                  /\ workers'[w].position = MovedWorkers[w].position
                  /\ workers'[w].total_distance = MovedWorkers[w].total_distance
                  /\ workers'[w].movement_history
                        = MovedWorkers[w].movement_history
                  /\ workers'[w].path_index = 0
                  /\ ~workers[w].is_busy =>
                        /\ workers'[w].position = workers[w].position
                        /\ workers'[w].total_distance = workers[w].total_distance
                        /\ workers'[w].movement_history
                              = workers[w].movement_history
            /\ NotMovedYet(workers'[w]) <=> AssignedInTick(w)
            /\ NotMovedYet(workers[w]) =>
                  /\ Len(workers'[w].movement_history)
                        = Len(workers[w].movement_history) + 1
                  /\ workers'[w].movement_history[
                        Len(workers'[w].movement_history)][1]
                        = current_time + time_step]_vars

\* a worker that has completed an order in this tick, was handed the next
\* one in the same tick and has not moved for it
C26_Witness ==
    \E w \in DOMAIN workers :
        /\ NotMovedYet(workers[w])
        /\ workers[w].movement_history # <<>>
        /\ workers[w].movement_history[Len(workers[w].movement_history)][1]
              = current_time
        /\ \E i \in DOMAIN orders : orders[i].completed_time = current_time

\* the order gets its worker in this step
AssignedNow(i) ==
    orders[i].assigned_worker = NoWorker /\ orders'[i].assigned_worker # NoWorker

\* the master log is in creation order: i < k means i was created first
SamePriorityPairs ==
    {p \in (DOMAIN orders) \X (DOMAIN orders) :
        p[1] < p[2] /\ orders[p[1]].priority = orders[p[2]].priority}

\* C27: among orders of equal priority assignment follows creation order: an
\* order is never assigned while an earlier-created order of its priority is
\* still unassigned, and when two of them are assigned in the same tick the
\* earlier-created one gets the worker with the lower id.
C27_StableWithinPriority ==
    /\ [](\A p \in SamePriorityPairs :
            orders[p[2]].assigned_worker # NoWorker
            => orders[p[1]].assigned_worker # NoWorker)
    /\ [][\A p \in SamePriorityPairs :
            (AssignedNow(p[1]) /\ AssignedNow(p[2]))
            => orders'[p[1]].assigned_worker < orders'[p[2]].assigned_worker]_vars

\* two orders of one priority queued behind each other, one worker: the first
\* is on its way, the second still waits
C27_Witness ==
    /\ Len(workers) = 1
    /\ Len(orders) = 2
    /\ orders[1].priority = orders[2].priority
    /\ orders[1].created_tick = orders[2].created_tick
    /\ orders[1].assigned_worker = 1
    /\ orders[2].assigned_worker = NoWorker
    /\ pending_orders = <<2>>
    /\ workers[1].movement_history # <<>>

\* the workers idle when the assignment step of this tick begins
IdleAfterMoves == {w \in DOMAIN workers : ~MovedWorkers[w].is_busy}

\* C28: assignment is work-conserving.  At the end of every tick no worker is
\* idle while an order is pending, and the number of orders assigned in the
\* tick is the smaller of the number of workers idle and the number of
\* orders pending when the assignment step begins.
C28_WorkConserving ==
    [][IsTick =>
        /\ ~(/\ pending_orders' # <<>>
              /\ \E w \in DOMAIN workers : ~workers'[w].is_busy)
        /\ Len(pending_orders) - Len(pending_orders')
              = Min(Cardinality(IdleAfterMoves), Len(pending_orders))
        /\ Cardinality({w \in DOMAIN workers : AssignedInTick(w)})
              = Min(Cardinality(IdleAfterMoves), Len(pending_orders))
        /\ Cardinality({i \in DOMAIN orders : AssignedNow(i)})
              = Min(Cardinality(IdleAfterMoves), Len(pending_orders))]_vars

\* fewer orders than idle workers: the one order has gone to worker 1 in the
\* tick after its creation, worker 2 stays idle with nothing pending
C28_Witness ==
    /\ Len(workers) = 2
    /\ Len(orders) = 1
    /\ current_time = orders[1].created_tick + 1
    /\ workers[1].current_order = 1
    /\ ~workers[2].is_busy
    /\ pending_orders = <<>>

\* every order assigned, completed and listed; every worker idle at the station
AllSettled ==
    /\ \A i \in DOMAIN orders :
          /\ orders[i].assigned_worker # NoWorker
          /\ IsCompleted(orders[i])
          /\ Contains(completed_orders, i)
    /\ pending_orders = <<>>
    /\ \A w \in DOMAIN workers :
          /\ ~workers[w].is_busy
          /\ workers[w].current_order = NoOrder
          /\ workers[w].position = picking_station

\* C29: on a constructed layout of width and height 2 or more, with at least
\* one worker and order creation that stops, every created order is
\* eventually assigned and eventually completed and every worker eventually
\* is idle at the picking station again, for good: no worker stalls.
C29_Liveness ==
    /\ <>[]AllSettled
    /\ \A i \in 1..MaxOrders :
          (i \in DOMAIN orders) ~>
              (/\ i \in DOMAIN orders
               /\ orders[i].assigned_worker # NoWorker
               /\ IsCompleted(orders[i]))
    /\ [](\A w \in DOMAIN workers : ~Stalled(w))

\* one worker has worked off two orders of two items each, one after the other
C29_Witness ==
    /\ Len(workers) = 1
    /\ Len(orders) = 2
    /\ Len(orders[1].original_items) = 2
    /\ Len(orders[2].original_items) = 2
    /\ workers[1].total_items_picked = 4
    /\ AllSettled

\* the worker's move() of this tick pops an item into picked_items
PicksNow(w) ==
    workers'[w].total_items_picked # workers[w].total_items_picked

\* C30: whenever a worker pops item p from the front of the backlog into
\* pickedItems, incrementing totalItemsPicked, it stands on
\* nearestWalkable(storageLocations[p]); pickedItems grows in no other way.
C30_PickAtSnappedCell ==
    [][\A w \in DOMAIN workers :
          /\ PicksNow(w) =>
                LET o == workers[w].current_order
                IN  /\ IsTick
                    /\ o # NoOrder
                    /\ orders[o].items # <<>>
                    /\ Head(orders[o].items) \in Products
                    /\ workers'[w].picked_items
                          = Append(workers[w].picked_items, Head(orders[o].items))
                    /\ workers'[w].total_items_picked
                          = workers[w].total_items_picked + 1
                    /\ Len(orders'[o].items) < Len(orders[o].items)
                    /\ workers'[w].position
                          = GetNearestWalkable(
                               walkable_paths,
                               storage_locations[Head(orders[o].items)])
          /\ Len(workers'[w].picked_items) > Len(workers[w].picked_items)
                => PicksNow(w)]_vars

\* a worker has just picked the second item of its order, at that item's
\* snapped cell, away from the cell of the first pick
C30_Witness ==
    \E w \in DOMAIN workers :
        /\ Len(workers[w].picked_items) = 2
        /\ workers[w].path_index = 0
        /\ workers[w].position
              = GetNearestWalkable(walkable_paths,
                                   storage_locations[workers[w].picked_items[2]])
        /\ workers[w].position
              # GetNearestWalkable(walkable_paths,
                                   storage_locations[workers[w].picked_items[1]])
        /\ workers[w].position # storage_locations[workers[w].picked_items[2]]

AllKnown(items) == \A k \in DOMAIN items : items[k] \in Products

\* C31: items are picked front to back without loss or duplication: for an
\* order held by a worker whose items all have storage locations, the
\* worker's pickedItems followed by the order's backlog is the order's
\* original item sequence; an idle worker's pickedItems is empty.
C31_PickedThenBacklog ==
    \A w \in DOMAIN workers :
        /\ workers[w].current_order # NoOrder =>
              LET o == orders[workers[w].current_order]
              IN  AllKnown(o.original_items) =>
                     workers[w].picked_items \o o.items = o.original_items
        /\ ~workers[w].is_busy => workers[w].picked_items = <<>>

\* a worker on its second order: the first item picked, the second still in
\* the backlog
C31_Witness ==
    \E w \in DOMAIN workers :
        /\ workers[w].current_order = 2
        /\ orders[1].assigned_worker = w
        /\ IsCompleted(orders[1])
        /\ orders[1].original_items # <<>>
        /\ AllKnown(orders[2].original_items)
        /\ Len(workers[w].picked_items) = 1
        /\ Len(orders[2].items) = 1

\* a planned path that has not been walked yet starts on the worker's cell
StartsOnOwnCell(w) ==
    (workers[w].is_busy /\ workers[w].path # <<>> /\ workers[w].path_index = 0)
        => workers[w].path[1] = workers[w].position

\* the length of the step a moving worker takes: 0 for the first step of a
\* leg, 1 for every other step
LegStep(w) == IF workers[w].path_index = 0 THEN 0 ELSE 1

\* C32: every planned non-empty path begins with the worker's current cell,
\* so each successful move changes position by Manhattan distance 0 (the
\* first step of a leg) or 1 (every other step) and adds exactly that amount
\* to totalDistance; a leg of h hops (a path of h+1 cells) therefore takes
\* h+1 movement ticks and adds h to totalDistance.
C32_LegAccounting ==
    /\ [](\A w \in DOMAIN workers : StartsOnOwnCell(w))
    /\ [][IsTick =>
            \A w \in DOMAIN workers :
                Moves(w) =>
                    /\ Manhattan(workers'[w].position, workers[w].position)
                           = LegStep(w)
                    /\ workers'[w].total_distance
                           = workers[w].total_distance + LegStep(w)]_vars

NoneKnown(items) == \A k \in DOMAIN items : items[k] \notin Products

\* worker w holds an order none of whose items has a storage location (an
\* empty order included) and has not walked since the order was planned
HoldsEmptyOrder(w) ==
    /\ workers[w].is_busy
    /\ workers[w].current_order # NoOrder
    /\ NoneKnown(orders[workers[w].current_order].original_items)
    /\ workers[w].path_index = 0

\* C33: an order whose backlog is empty at assignment, or becomes empty
\* during planning because every item is unknown, is routed directly to the
\* picking station; if the worker is standing on the picking station, the
\* order is completed on the worker's next movement tick with totalDistance
\* and totalItemsPicked unchanged.
C33_EmptyOrderCompletes ==
    /\ [](\A w \in DOMAIN workers :
            HoldsEmptyOrder(w) =>
                /\ orders[workers[w].current_order].items = <<>>
                /\ workers[w].path
                       = ShortestPath(workers[w].position, picking_station).path)
    /\ [][IsTick =>
            \A w \in DOMAIN workers :
                (HoldsEmptyOrder(w) /\ workers[w].position = picking_station) =>
                    /\ IsCompleted(orders'[workers[w].current_order])
                    /\ workers'[w].total_distance = workers[w].total_distance
                    /\ workers'[w].total_items_picked
                           = workers[w].total_items_picked]_vars

\* a step of generate_random_order that created an order: the only place
\* where stats['total_orders'] changes
CreatesOrder == stats'.total_orders # stats.total_orders

Distinct(items) ==
    \A i, j \in DOMAIN items : i # j => items[i] # items[j]

\* C34: every order created by the simulator has pairwise-distinct items that
\* are all keys of storageLocations, an item count equal to
\* min(n, number of products) for some n in the configured range, a priority
\* in {1,2,3} and an id equal to its 1-based position in the master log, and
\* it is appended to both the master log and pending.
C34_GeneratedOrder ==
    [][CreatesOrder =>
        LET id == Len(orders) + 1
        IN  /\ Len(orders') = id
            /\ SubSeq(orders', 1, Len(orders)) = orders
            /\ pending_orders' = Append(pending_orders, id)
            /\ orders'[id].order_id = id
            /\ orders'[id].priority \in 1..MaxPriority
            /\ Distinct(orders'[id].items)
            /\ \A k \in DOMAIN orders'[id].items :
                   orders'[id].items[k] \in DOMAIN storage_locations
            /\ \E n \in MinItems..MaxItems :
                   Len(orders'[id].items)
                       = Min(n, Cardinality(DOMAIN storage_locations))
            /\ ~IsCompleted(orders'[id])
            /\ orders'[id].assigned_worker = NoWorker]_vars

\* a generated two-item order queued behind a caller-built one
C34_Witness ==
    /\ stats.total_orders = 1
    /\ Len(orders) = 2
    /\ orders[1].original_items = <<UnknownProduct>>
    /\ Len(orders[2].items) = 2
    /\ orders[2].order_id = 2
    /\ InPending(2)

HistoryStep(w) ==
    LET old == workers[w].movement_history
        new == workers'[w].movement_history
    IN  /\ Len(new) \in {Len(old), Len(old) + 1}
        /\ SubSeq(new, 1, Len(old)) = old
        /\ Len(new) = Len(old) + 1 =>
               /\ IsTick
               /\ new[Len(new)][1] = current_time'
        /\ (IsTick /\ ~aborted' /\ Moves(w)) => Len(new) = Len(old) + 1

StrictlyIncreasingStamps(h) ==
    \A i, j \in DOMAIN h : i < j => h[i][1] < h[j][1]

\* C35: movementHistory is append-only with one entry per movement tick:
\* existing entries are never modified or removed; a worker gains at most one
\* entry per tick, stamped with that tick's currentTime, so the timestamps
\* are strictly increasing; totalDistance and totalItemsPicked never
\* decrease.
C35_HistoryAppendOnly ==
    /\ [](\A w \in DOMAIN workers :
            StrictlyIncreasingStamps(workers[w].movement_history))
    /\ [][\A w \in DOMAIN workers :
            /\ HistoryStep(w)
            /\ workers'[w].total_distance >= workers[w].total_distance
            /\ workers'[w].total_items_picked
                   >= workers[w].total_items_picked]_vars

\* a worker that has walked four ticks and picked an item on the way
C35_Witness ==
    \E w \in DOMAIN workers :
        /\ Len(workers[w].movement_history) >= 4
        /\ workers[w].total_items_picked >= 1
        /\ workers[w].total_distance >= 2

\* the sum of completedAt - createdAt over the orders listed in completed
TurnaroundSum ==
    SumSeq([k \in DOMAIN completed_orders |->
              orders[completed_orders[k]].completed_time
                  - orders[completed_orders[k]].created_time])

\* C36: once a tick has left at least one order in completed,
\* stats.avgOrderCompletionTime is the arithmetic mean of
\* completedAt - createdAt over the orders in completed; with no completed
\* order it is 0.
C36_AverageCompletionTime ==
    LET avg == stats.avg_order_completion_time
    IN  IF completed_orders = <<>>
        THEN avg.num = 0
        ELSE avg.num * Len(completed_orders) = avg.den * TurnaroundSum

\* C37: for every generated topology, every key and every listed neighbour
\* of the adjacency map is an in-bounds non-shelf cell, each neighbour is
\* 4-adjacent to its key, every walkable cell is a key, and the relation is
\* symmetric.
C37_AdjacencyWellFormed ==
    grid = InitializeLayout(width, height) =>
        /\ \A c \in DOMAIN adjacency_list :
              /\ Walkable(c)
              /\ \A n \in Range(adjacency_list[c]) :
                    /\ Walkable(n)
                    /\ Manhattan(c, n) = 1
                    /\ n \in DOMAIN adjacency_list
                    /\ c \in Range(adjacency_list[n])
        /\ \A c \in DOMAIN grid :
              grid[c] # SHELF => c \in DOMAIN adjacency_list

\* a generated layout with a shelf: an aisle cell next to it lists three
\* neighbours, the shelf not among them
C37_Witness ==
    /\ grid = InitializeLayout(width, height)
    /\ \E c \in DOMAIN adjacency_list, s \in DOMAIN grid :
          /\ grid[s] = SHELF
          /\ Manhattan(c, s) = 1
          /\ Len(adjacency_list[c]) = 3
          /\ s \notin Range(adjacency_list[c])

\* a step in which planning gave worker w a path: the entry planning writes
\* is the last thing the tick adds to the worker's log
PlansPath(w) ==
    /\ Len(workers'[w].activity_log) > Len(workers[w].activity_log)
    /\ IsRouteEntry(workers'[w].activity_log[Len(workers'[w].activity_log)])

\* C38: in every reachable state each worker has
\* 0 <= pathIndex <= path.length, and pathIndex is reset to 0 every time a
\* new path is planned.
C38_CursorInRange ==
    /\ [](\A w \in DOMAIN workers :
            /\ 0 <= workers[w].path_index
            /\ workers[w].path_index <= Len(workers[w].path))
    /\ [][\A w \in DOMAIN workers :
            PlansPath(w) => workers'[w].path_index = 0]_vars

\* a worker that has walked one path to its end and stands at the start of
\* the next one
C38_Witness ==
    \E w \in DOMAIN workers :
        /\ workers[w].is_busy
        /\ workers[w].total_items_picked >= 1
        /\ workers[w].path_index = 0
        /\ Len(workers[w].path) >= 2

=============================================================================
